---- MODULE Spec2Model ----
(***************************************************************************)
(* Model of the blog backend's storage layer (src/src/storage.rs), its    *)
(* domain model (src/src/models.rs) and the request handlers that call it *)
(* (src/src/handlers/*.rs).                                               *)
(*                                                                         *)
(* Request handlers run on a pool of worker threads.  A step of the model *)
(* is one critical section of a Storage method: the statements executed   *)
(* from locking the mutex to dropping the guard.  A mutating method is    *)
(* its body, then the separate call of save(), which locks the mutex      *)
(* again, creates (truncates) the file and writes it.                     *)
(***************************************************************************)
EXTENDS Integers, Sequences, FiniteSets, TLC

\* ------------------------------------------------------------------ bounds
\* worker threads serving requests are Threads == 1..NumThreads
NumThreads == 2
\* number of Post ids Uuid::new_v4 hands out in a run of the model
MaxPosts == 2
\* number of Comment ids Uuid::new_v4 hands out in a run of the model
MaxComments == 3
\* wall-clock readings are 0..MaxTime
MaxTime == 1
\* number of snapshot writes that fail while one Storage runs
MaxSaveFailures == 1
\* Post and Comment ids handed out in the concurrent runs (Spec)
ConcPosts == 1
ConcComments == 2
\* Post and Comment ids handed out in the runs with restarts (SpecBoot)
BootPosts == 1
BootComments == 1
\* Post ids handed out in the runs with a running clock (SpecClock, SpecStamp)
ClockPosts == 1
\* Comment ids handed out in the runs with a running clock (SpecStamp)
ClockComments == 1
\* Post and Comment ids handed out in the runs that list comments (SpecList)
ListPosts == 2
ListComments == 2
\* Post and Comment ids handed out in the runs under fair scheduling (SpecFair)
FairPosts == 1
FairComments == 1
\* Post and Comment ids handed out in the runs that update posts (SpecEdit)
EditPosts == 2
EditComments == 1

Threads == 1..NumThreads
Time == 0..MaxTime
\* a text that is empty after trim()
Blank == " "
\* the id of no post: a Uuid of a request path that new_v4 never produced
NoId == 0
\* the mutex is free
Free == 0

\* Option<T>: None is <<>>, Some(v) is <<v>>
None == <<>>
Some(v) == <<v>>
IsSome(o) == o # <<>>

VARIABLES
    phase,        \* "down": no process; "up": Storage::new returned Ok; "failed": it returned Err
    boot,         \* how the running Storage was built: "none", "created", "loaded", then "used"
    prev,         \* how the previous process ended: "none", "clean", "dirty"
    data,         \* BlogData behind the mutex: [posts: id -> Post, comments: Seq(Comment)]
    lock,         \* holder of Mutex<BlogData>: a thread, or Free
    disk,         \* the snapshot file: [exists, content]
    clock,        \* the wall clock read by Utc::now()
    nextPost,     \* next Post id of Uuid::new_v4
    nextComment,  \* next Comment id of Uuid::new_v4
    saveFailures, \* number of saves of the running Storage that returned Err
    pc,           \* per thread: position in the handler / Storage method
    req,          \* per thread: the request being served and its locals
    win,          \* per thread: get_post_comments results that one single state
                  \* during the call, in which the post existed, would give (history)
    listed,       \* the last list of comments a handler returned, while no method
                  \* body has changed BlogData since (history)
    last          \* what the last step did (history)

vars == <<phase, boot, prev, data, lock, disk, clock, nextPost, nextComment,
          saveFailures, pc, req, win, listed, last>>

\* ------------------------------------------------------------ domain model
\* BlogData::new
BlogDataNew == [posts |-> <<>>, comments |-> <<>>]

\* Post::new: created_at and updated_at are two readings of Utc::now()
PostNew(id, title, content, author, t1, t2) ==
    [id |-> id, title |-> title, content |-> content, author |-> author,
     created_at |-> t1, updated_at |-> t2]

\* mutant of PostUpdate: created_at is refreshed together with updated_at
PostUpdateBothStamps(p, title, content, now) ==
    [p EXCEPT !.title = IF IsSome(title) THEN title[1] ELSE @,
              !.content = IF IsSome(content) THEN content[1] ELSE @,
              !.created_at = now,
              !.updated_at = now]

\* mutant of PostUpdate: updated_at is refreshed only when a field is present
PostUpdateIfChanged(p, title, content, now) ==
    [p EXCEPT !.title = IF IsSome(title) THEN title[1] ELSE @,
              !.content = IF IsSome(content) THEN content[1] ELSE @,
              !.updated_at = IF IsSome(title) \/ IsSome(content) THEN now ELSE @]

\* Post::update: overwrite the fields that are present, refresh updated_at
PostUpdate(p, title, content, now) ==
    [p EXCEPT !.title = IF IsSome(title) THEN title[1] ELSE @,
              !.content = IF IsSome(content) THEN content[1] ELSE @,
              !.updated_at = now]

\* Comment::new
CommentNew(id, post_id, content, author, t1, t2) ==
    [id |-> id, post_id |-> post_id, content |-> content, author |-> author,
     created_at |-> t1, updated_at |-> t2]

\* str::trim().is_empty()
TrimIsEmpty(s) == s \in {"", " "}

\* titles: 201 ASCII characters; 200 ASCII characters; 200 characters of two
\* bytes each in UTF-8 (such as U+00E9)
LongTitle == "long"
FullTitle == "full"
WideTitle == "wide"
\* str::len(): the length of the UTF-8 encoding in bytes
StrLen(s) ==
    CASE s = LongTitle -> 201
      [] s = FullTitle -> 200
      [] s = WideTitle -> 400
      [] s = "" -> 0
      [] s = "al" -> 2
      [] OTHER -> 1
\* the longest title the handlers accept
MaxTitleLen == 200

\* ----------------------------------------------------------- serialization
\* Uuid and DateTime<Utc> are written as JSON strings
UuidToJson(id) == <<"uuid", id>>
UuidFromJson(j) == j[2]
TimeToJson(t) == <<"rfc3339", t>>
TimeFromJson(j) == j[2]

PostToJson(p) ==
    [id |-> UuidToJson(p.id), title |-> p.title, content |-> p.content,
     author |-> p.author, created_at |-> TimeToJson(p.created_at),
     updated_at |-> TimeToJson(p.updated_at)]

PostFromJson(j) ==
    [id |-> UuidFromJson(j.id), title |-> j.title, content |-> j.content,
     author |-> j.author, created_at |-> TimeFromJson(j.created_at),
     updated_at |-> TimeFromJson(j.updated_at)]

CommentToJson(c) ==
    [id |-> UuidToJson(c.id), post_id |-> UuidToJson(c.post_id),
     content |-> c.content, author |-> c.author,
     created_at |-> TimeToJson(c.created_at),
     updated_at |-> TimeToJson(c.updated_at)]

CommentFromJson(j) ==
    [id |-> UuidFromJson(j.id), post_id |-> UuidFromJson(j.post_id),
     content |-> j.content, author |-> j.author,
     created_at |-> TimeFromJson(j.created_at),
     updated_at |-> TimeFromJson(j.updated_at)]

\* mutant of ToJson: the comments are left out of the document
ToJsonPostsOnly(d) ==
    [kind |-> "json",
     posts |-> {<<UuidToJson(k), PostToJson(d.posts[k])>> : k \in DOMAIN d.posts},
     comments |-> <<>>]

\* serde_json::to_string_pretty(&BlogData): "posts" is a JSON object, the set
\* of its members <<key, value>>; "comments" is a JSON array
ToJson(d) ==
    [kind |-> "json",
     posts |-> {<<UuidToJson(k), PostToJson(d.posts[k])>> : k \in DOMAIN d.posts},
     comments |-> [i \in 1..Len(d.comments) |-> CommentToJson(d.comments[i])]]

\* serde_json::from_str::<BlogData>
FromJson(j) ==
    [posts |-> [k \in {UuidFromJson(m[1]) : m \in j.posts} |->
                  PostFromJson((CHOOSE m \in j.posts : UuidFromJson(m[1]) = k)[2])],
     comments |-> [i \in 1..Len(j.comments) |-> CommentFromJson(j.comments[i])]]

\* file contents that are no snapshot
NoContent == [kind |-> "none", posts |-> {}, comments |-> <<>>]
\* a proper prefix of the document, the empty one included: what File::create
\* leaves until write_all is done, and what a failed write_all leaves for good;
\* serde_json::from_str returns Err on it
Partial == [kind |-> "partial", posts |-> {}, comments |-> <<>>]

Absent == [exists |-> FALSE, content |-> NoContent]
FileWith(c) == [exists |-> TRUE, content |-> c]

\* serde_json::from_str returns Ok
Parses(c) == c.kind = "json"

\* --------------------------------------------------------------- requests
\* the locals of a request: which handler, the id of its path, and the Post
\* that the handler of GET /posts/{id} got from get_post
NoReq == [op |-> "none", id |-> NoId, ent |-> <<>>]

\* no list of comments returned since BlogData last changed
NoList == [id |-> NoId, val |-> <<>>]

\* what a step did: a thread at position `at` served request `op` with path id
\* `id` and body `args`; `kind` is the ApiResult the handler returned in this step ("Ok"
\* or the ApiError), or "none" if the request goes on; `val` is the value of a
\* returned Ok; `seen` is the history win of a returning get_post_comments;
\* `pre` is BlogData before the step and `was` the history listed before it
NoEvent == [at |-> "none", op |-> "none", id |-> NoId, args |-> <<>>, kind |-> "none",
            val |-> <<>>, seen |-> {}, pre |-> <<>>, was |-> <<>>]

\* ---------------------------------------------------------- initial state
Init ==
    /\ phase = "down"
    /\ boot = "none"
    /\ prev = "none"
    /\ data = BlogDataNew
    /\ lock = Free
    /\ disk \in {Absent, FileWith(Partial), FileWith(ToJson(BlogDataNew))}
    /\ clock = 0
    /\ nextPost = 1
    /\ nextComment = 1
    /\ saveFailures = 0
    /\ pc = [t \in Threads |-> "idle"]
    /\ req = [t \in Threads |-> NoReq]
    /\ win = [t \in Threads |-> {}]
    /\ listed = NoList
    /\ last = NoEvent

\* ------------------------------------------------------------- helpers
\* data.posts.contains_key(id)
HasPost(d, id) == id \in DOMAIN d.posts

\* data.comments.iter().filter(|c| c.post_id == post_id).cloned().collect()
CommentsOf(d, post_id) == SelectSeq(d.comments, LAMBDA c : c.post_id = post_id)

\* mutant of Retain: the closure keeps the post's comments and drops the others
RetainInverted(cs, id) == SelectSeq(cs, LAMBDA c : c.post_id = id)

\* data.comments.retain(|c| c.post_id != id)
Retain(cs, id) == SelectSeq(cs, LAMBDA c : c.post_id # id)

\* mutant of Position: an id that matches no comment yields the last position
PositionOrLast(cs, id) ==
    IF \E i \in 1..Len(cs) : cs[i].id = id
    THEN CHOOSE i \in 1..Len(cs) : cs[i].id = id /\ \A j \in 1..(i - 1) : cs[j].id # id
    ELSE Len(cs)

\* data.comments.iter().position(|c| c.id == id): 0 stands for None
Position(cs, id) ==
    IF \E i \in 1..Len(cs) : cs[i].id = id
    THEN CHOOSE i \in 1..Len(cs) : cs[i].id = id /\ \A j \in 1..(i - 1) : cs[j].id # id
    ELSE 0

\* mutant of Remove: Vec::swap_remove(index), the last element takes the place
RemoveSwap(cs, index) ==
    [i \in 1..(Len(cs) - 1) |-> IF i = index THEN cs[Len(cs)] ELSE cs[i]]

\* Vec::remove(index)
Remove(cs, index) == [i \in 1..(Len(cs) - 1) |-> IF i < index THEN cs[i] ELSE cs[i + 1]]

\* HashMap::insert
Insert(posts, p) == [k \in DOMAIN posts \cup {p.id} |-> IF k = p.id THEN p ELSE posts[k]]

\* HashMap::remove
RemoveKey(posts, id) == [k \in DOMAIN posts \ {id} |-> posts[k]]

\* ids a request path can carry: every id handed out so far, and one that never was
PostPathIds == NoId..(nextPost - 1)
CommentPathIds == NoId..(nextComment - 1)

\* positions of a thread inside get_post_comments
InGetPostComments == {"gpc_check", "gpc_filter"}

\* what get_post_comments(id) returns when run on the single state d, if the post exists in d
Candidates(d, id) == IF HasPost(d, id) THEN {CommentsOf(d, id)} ELSE {}

\* what GET /posts/{id} answers when served from the single state d, if the post exists in d
Views(d, id) ==
    IF HasPost(d, id) THEN {[post |-> d.posts[id], comments |-> CommentsOf(d, id)]} ELSE {}

\* history: the states the running get_post_comments calls live through
Observe(d) ==
    [u \in Threads |->
        IF pc[u] \notin InGetPostComments THEN win[u]
        ELSE IF req[u].op = "get_post" THEN win[u] \cup Views(d, req[u].id)
        ELSE win[u] \cup Candidates(d, req[u].id)]

\* ------------------------------------------------------ process lifecycle
\* mutant of StorageNew: no initial snapshot is written when the file is absent
StorageNewNoInitialSave ==
    /\ phase # "up" /\ last = NoEvent
    /\ \E dirOk, readOk \in BOOLEAN :
        IF ~dirOk
        THEN /\ phase' = "failed"
             /\ UNCHANGED <<boot, data, disk>>
        ELSE IF disk.exists
        THEN IF readOk /\ Parses(disk.content)
             THEN /\ phase' = "up"
                  /\ boot' = "loaded"
                  /\ data' = FromJson(disk.content)
                  /\ disk' = disk
             ELSE /\ phase' = "failed"
                  /\ UNCHANGED <<boot, data, disk>>
        ELSE /\ phase' = "up"
             /\ boot' = "created"
             /\ data' = BlogDataNew
             /\ disk' = disk
    /\ saveFailures' = 0
    /\ last' = NoEvent
    /\ UNCHANGED <<prev, lock, clock, nextPost, nextComment, pc, req, win, listed>>

\* Storage::new, called once by main before the server starts
StorageNew ==
    /\ phase # "up" /\ last = NoEvent
    /\ \E dirOk, readOk, createOk, writeOk \in BOOLEAN :
        IF ~dirOk
        THEN /\ phase' = "failed"
             /\ UNCHANGED <<boot, data, disk>>
        ELSE IF disk.exists
        THEN IF readOk /\ Parses(disk.content)
             THEN /\ phase' = "up"
                  /\ boot' = "loaded"
                  /\ data' = FromJson(disk.content)
                  /\ disk' = disk
             ELSE /\ phase' = "failed"
                  /\ UNCHANGED <<boot, data, disk>>
        ELSE IF ~createOk
        THEN /\ phase' = "failed"
             /\ UNCHANGED <<boot, data, disk>>
        ELSE IF ~writeOk
        THEN /\ phase' = "failed"
             /\ disk' = FileWith(Partial)
             /\ UNCHANGED <<boot, data>>
        ELSE /\ phase' = "up"
             /\ boot' = "created"
             /\ data' = BlogDataNew
             /\ disk' = FileWith(ToJson(BlogDataNew))
    /\ saveFailures' = 0
    /\ last' = NoEvent
    /\ UNCHANGED <<prev, lock, clock, nextPost, nextComment, pc, req, win, listed>>

\* the process ends (exit or kill), at any point of any request
Stop ==
    /\ phase = "up" /\ last = NoEvent
    /\ phase' = "down"
    /\ boot' = "none"
    /\ prev' = IF (\A t \in Threads : pc[t] = "idle") /\ saveFailures = 0
               THEN "clean" ELSE "dirty"
    /\ lock' = Free
    /\ saveFailures' = 0
    /\ pc' = [t \in Threads |-> "idle"]
    /\ req' = [t \in Threads |-> NoReq]
    /\ win' = [t \in Threads |-> {}]
    /\ listed' = NoList
    /\ last' = NoEvent
    /\ UNCHANGED <<data, disk, clock, nextPost, nextComment>>

\* the wall clock is set, forward or backward
ClockStep ==
    /\ last = NoEvent
    /\ \E now \in Time \ {clock} : clock' = now
    /\ last' = NoEvent
    /\ UNCHANGED <<phase, boot, prev, data, lock, disk, nextPost, nextComment,
                   saveFailures, pc, req, win, listed>>

\* ---------------------------------------------- handlers and Storage methods
\* A worker thread takes a request and runs its handler.  What a handler does
\* before its first Storage call (validation, Post::new, Comment::new) touches
\* no shared data, and each Storage method body runs from
\* `self.data.lock().unwrap()` to the drop of the guard (drop(data), the end of
\* the method, or a return through `?`) with every other access to BlogData
\* excluded.  So a step below is: the thread-local statements, then one
\* critical section, enabled when the mutex is free and leaving it free.  The
\* steps of one request are the critical sections it enters, in order.  Only
\* save is two steps (File::create, then write_all), with the mutex held in
\* between, because the file is visible to the next process.

\* the step that thread t takes from pc[t] for request op
Event(t, op, id, args, kind, val) ==
    [at |-> pc[t], op |-> op, id |-> id, args |-> args, kind |-> kind,
     val |-> val, seen |-> win[t], pre |-> data, was |-> listed]

\* a worker thread takes a request; from then on the Storage is in use
Accept(t) ==
    /\ phase = "up" /\ pc[t] = "idle" /\ lock = Free /\ last = NoEvent
    /\ boot' = "used"
    /\ prev' = "none"
    /\ UNCHANGED <<phase, lock, disk, saveFailures>>

\* a later step of the request of thread t, at position p
Resume(t, p) ==
    /\ phase = "up" /\ pc[t] = p /\ last = NoEvent
    /\ UNCHANGED <<phase, boot, prev, clock, nextPost, nextComment>>

\* the handler returns on thread t: the response is sent, the worker is free again
Return(t, op, id, args, kind, val) ==
    /\ last' = Event(t, op, id, args, kind, val)
    /\ pc' = [pc EXCEPT ![t] = "idle"]
    /\ req' = [req EXCEPT ![t] = NoReq]
    /\ win' = [win EXCEPT ![t] = {}]
    /\ listed' = IF op = "get_comments" /\ kind = "Ok"
                 THEN [id |-> id, val |-> val] ELSE listed

\* a mutating method that returns Ok after drop(data), without self.save()
MutatedUnsaved(t, op, id, args, d) ==
    /\ data' = d
    /\ Return(t, op, id, args, "Ok", <<>>)

\* the handler returns Err(kind) before anything was changed
Reject(t, op, id, kind) ==
    /\ Return(t, op, id, <<>>, kind, <<>>)
    /\ UNCHANGED data

\* the body of a mutating method changed BlogData to d: drop(data), then self.save()?
Mutated(t, op, id, args, d) ==
    /\ data' = d
    /\ last' = Event(t, op, id, args, "none", <<>>)
    /\ req' = [req EXCEPT ![t] = [NoReq EXCEPT !.op = op, !.id = id]]
    /\ win' = Observe(d)
    /\ listed' = NoList
    /\ pc' = [pc EXCEPT ![t] = "save"]

\* GET /posts: Storage::get_all_posts
get_all_posts(t) ==
    /\ Accept(t)
    /\ Return(t, "get_posts", NoId, <<>>, "Ok", data.posts)
    /\ UNCHANGED <<data, clock, nextPost, nextComment>>

\* GET /posts/{id}: Storage::get_post; Storage::get_post_comments follows
get_post(t) ==
    /\ Accept(t)
    /\ \E id \in PostPathIds :
        IF ~HasPost(data, id)
        THEN Reject(t, "get_post", id, "PostNotFound")
        ELSE /\ req' = [req EXCEPT ![t] = [op |-> "get_post", id |-> id, ent |-> data.posts[id]]]
             /\ win' = [win EXCEPT ![t] = Views(data, id)]
             /\ UNCHANGED listed
             /\ pc' = [pc EXCEPT ![t] = "gpc_check"]
             /\ last' = Event(t, "get_post", id, <<>>, "none", <<>>)
             /\ UNCHANGED data
    /\ UNCHANGED <<clock, nextPost, nextComment>>

\* GET /posts/{post_id}/comments: Storage::get_post_comments, whose first
\* statement is self.get_post(post_id)?
get_comments(t) ==
    /\ Accept(t)
    /\ \E id \in PostPathIds :
        IF ~HasPost(data, id)
        THEN Reject(t, "get_comments", id, "PostNotFound")
        ELSE /\ req' = [req EXCEPT ![t] = [NoReq EXCEPT !.op = "get_comments", !.id = id]]
             /\ win' = [win EXCEPT ![t] = Candidates(data, id)]
             /\ UNCHANGED listed
             /\ pc' = [pc EXCEPT ![t] = "gpc_filter"]
             /\ last' = Event(t, "get_comments", id, <<>>, "none", <<>>)
             /\ UNCHANGED data
    /\ UNCHANGED <<clock, nextPost, nextComment>>

\* Storage::get_post_comments called by the handler of GET /posts/{id}:
\* self.get_post(post_id)?
get_post_comments_check(t) ==
    /\ Resume(t, "gpc_check") /\ lock = Free
    /\ IF ~HasPost(data, req[t].id)
       THEN Reject(t, req[t].op, req[t].id, "PostNotFound")
       ELSE /\ pc' = [pc EXCEPT ![t] = "gpc_filter"]
            /\ last' = Event(t, req[t].op, req[t].id, <<>>, "none", <<>>)
            /\ UNCHANGED <<data, req, win, listed>>
    /\ UNCHANGED <<lock, disk, saveFailures>>

\* mutant of get_post_comments: the comments returned are taken out of BlogData
get_post_comments_drain(t) ==
    /\ Resume(t, "gpc_filter") /\ lock = Free
    /\ Return(t, req[t].op, req[t].id, <<>>, "Ok",
              IF req[t].op = "get_post"
              THEN [post |-> req[t].ent, comments |-> CommentsOf(data, req[t].id)]
              ELSE CommentsOf(data, req[t].id))
    /\ data' = [data EXCEPT !.comments = Retain(@, req[t].id)]
    /\ UNCHANGED <<lock, disk, saveFailures>>

\* Storage::get_post_comments after its get_post: lock again and filter
get_post_comments(t) ==
    /\ Resume(t, "gpc_filter") /\ lock = Free
    /\ Return(t, req[t].op, req[t].id, <<>>, "Ok",
              IF req[t].op = "get_post"
              THEN [post |-> req[t].ent, comments |-> CommentsOf(data, req[t].id)]
              ELSE CommentsOf(data, req[t].id))
    /\ UNCHANGED <<data, lock, disk, saveFailures>>

\* POST /posts: validation, Post::new, Storage::create_post up to drop(data)
create_post(t, bodies, times) ==
    /\ Accept(t)
    /\ \E args \in bodies, now2 \in times :
        LET title == args.title
            content == args.content
            author == args.author
        IN  IF \/ TrimIsEmpty(title) \/ TrimIsEmpty(content) \/ TrimIsEmpty(author)
               \/ StrLen(title) > MaxTitleLen
            THEN /\ Return(t, "create_post", NoId, args, "ValidationError", <<>>)
                 /\ UNCHANGED <<data, clock, nextPost>>
            ELSE LET post == PostNew(nextPost, title, content, author, clock, now2)
                 IN  /\ nextPost <= MaxPosts
                     /\ Mutated(t, "create_post", post.id, args,
                                [data EXCEPT !.posts = Insert(@, post)])
                     /\ clock' = now2
                     /\ nextPost' = nextPost + 1
    /\ UNCHANGED nextComment

\* PUT /posts/{id}: validation, Storage::update_post up to drop(data)
update_post(t, bodies) ==
    /\ Accept(t)
    /\ \E id \in PostPathIds, args \in bodies :
        LET title == args.title
            content == args.content
        IN  IF \/ (IsSome(title) /\ (TrimIsEmpty(title[1]) \/ StrLen(title[1]) > MaxTitleLen))
               \/ (IsSome(content) /\ TrimIsEmpty(content[1]))
            THEN Reject(t, "update_post", id, "ValidationError")
            ELSE IF ~HasPost(data, id)
            THEN Reject(t, "update_post", id, "PostNotFound")
            ELSE Mutated(t, "update_post", id, args,
                         [data EXCEPT !.posts[id] = PostUpdate(@, title, content, clock)])
    /\ UNCHANGED <<clock, nextPost, nextComment>>

\* DELETE /posts/{id}: Storage::delete_post up to drop(data)
delete_post(t) ==
    /\ Accept(t)
    /\ \E id \in PostPathIds :
        IF ~HasPost(data, id)
        THEN Reject(t, "delete_post", id, "PostNotFound")
        ELSE Mutated(t, "delete_post", id, <<>>,
                     [posts |-> RemoveKey(data.posts, id),
                      comments |-> Retain(data.comments, id)])
    /\ UNCHANGED <<clock, nextPost, nextComment>>

\* POST /posts/{post_id}/comments: validation, Comment::new,
\* Storage::create_comment up to drop(data)
create_comment(t, bodies, times) ==
    /\ Accept(t)
    /\ \E post_id \in PostPathIds, args \in bodies, now2 \in times :
        LET content == args.content
            author == args.author
        IN  IF TrimIsEmpty(author) \/ TrimIsEmpty(content)
            THEN /\ Reject(t, "create_comment", post_id, "ValidationError")
                 /\ UNCHANGED <<clock, nextComment>>
            ELSE LET comment == CommentNew(nextComment, post_id, content, author, clock, now2)
                 IN  /\ nextComment <= MaxComments
                     /\ Mutated(t, "create_comment", post_id, args,
                                [data EXCEPT !.comments = Append(@, comment)])
                     /\ clock' = now2
                     /\ nextComment' = nextComment + 1
    /\ UNCHANGED nextPost

\* DELETE /comments/{id}: Storage::delete_comment up to drop(data)
delete_comment(t) ==
    /\ Accept(t)
    /\ \E id \in CommentPathIds :
        LET index == Position(data.comments, id)
        IN  IF index = 0
            THEN Reject(t, "delete_comment", id, "CommentNotFound")
            ELSE Mutated(t, "delete_comment", id, <<>>,
                         [data EXCEPT !.comments = Remove(@, index)])
    /\ UNCHANGED <<clock, nextPost, nextComment>>

\* mutant of SaveErr: a failed save reloads BlogData from the file
SaveErrReload(t) ==
    /\ saveFailures < MaxSaveFailures
    /\ saveFailures' = saveFailures + 1
    /\ Return(t, req[t].op, req[t].id, <<>>, "StorageError", <<>>)
    /\ data' = IF Parses(disk.content) THEN FromJson(disk.content) ELSE data

\* save returns Err (map_err) and the method hands it on with `?`: the guard
\* is dropped, the handler returns StorageError, BlogData stays as it is
SaveErr(t) ==
    /\ saveFailures < MaxSaveFailures
    /\ saveFailures' = saveFailures + 1
    /\ Return(t, req[t].op, req[t].id, <<>>, "StorageError", <<>>)
    /\ UNCHANGED data

\* a save that serializes BlogData and creates the file, and locks nothing
save_create_unlocked(t, oks) ==
    /\ Resume(t, "save") /\ lock = Free
    /\ \E ok \in oks :
        IF ok
        THEN /\ disk' = FileWith(Partial)
             /\ req' = [req EXCEPT ![t].ent = ToJson(data)]
             /\ pc' = [pc EXCEPT ![t] = "save_write"]
             /\ last' = Event(t, req[t].op, req[t].id, <<>>, "none", <<>>)
             /\ UNCHANGED <<data, lock, saveFailures, win, listed>>
        ELSE /\ SaveErr(t)
             /\ UNCHANGED <<disk, lock>>

\* Storage::save: lock, serialize into the local `json` (cannot fail for
\* BlogData), File::create
save_create(t, oks) ==
    /\ Resume(t, "save") /\ lock = Free
    /\ \E ok \in oks :
        IF ok
        THEN /\ disk' = FileWith(Partial)
             /\ lock' = t
             /\ req' = [req EXCEPT ![t].ent = ToJson(data)]
             /\ pc' = [pc EXCEPT ![t] = "save_write"]
             /\ last' = Event(t, req[t].op, req[t].id, <<>>, "none", <<>>)
             /\ UNCHANGED <<data, saveFailures, win, listed>>
        ELSE /\ SaveErr(t)
             /\ UNCHANGED <<disk, lock>>

\* a save whose error path returns without dropping the guard
save_write_keeps_guard(t, oks) ==
    /\ Resume(t, "save_write")
    /\ \E ok \in oks :
        IF ok
        THEN /\ disk' = FileWith(req[t].ent)
             /\ Return(t, req[t].op, req[t].id, <<>>, "Ok", <<>>)
             /\ UNCHANGED <<data, saveFailures>>
             /\ lock' = Free
        ELSE /\ SaveErr(t)
             /\ disk' = FileWith(Partial)
             /\ lock' = t

\* Storage::save, still under the mutex: write_all of `json`; then the guard is dropped
\* and the method returns to the handler
save_write(t, oks) ==
    /\ Resume(t, "save_write")
    /\ \E ok \in oks :
        IF ok
        THEN /\ disk' = FileWith(req[t].ent)
             /\ Return(t, req[t].op, req[t].id, <<>>, "Ok", <<>>)
             /\ UNCHANGED <<data, saveFailures>>
        ELSE /\ SaveErr(t)
             /\ disk' = FileWith(Partial)
    /\ lock' = Free

\* history: the step recorded in `last` has been looked at; the next step follows
Noted ==
    /\ last # NoEvent
    /\ last' = NoEvent
    /\ UNCHANGED <<phase, boot, prev, data, lock, disk, clock, nextPost, nextComment,
                   saveFailures, pc, req, win, listed>>

\* ------------------------------------------------------------ behaviours
\* request bodies (the JSON of POST /posts, PUT /posts/{id}, POST .../comments)
OnePost == {[title |-> "a", content |-> "x", author |-> "al"]}
OneUpdate == {[title |-> Some("b"), content |-> None]}
OneComment == {[content |-> "x", author |-> "al"]}

\* the same with the bodies the handlers' validation refuses, and with every
\* combination of present and absent fields of UpdatePost
CreatePosts ==
    OnePost
    \cup {[title |-> Blank, content |-> "x", author |-> "al"],
          [title |-> LongTitle, content |-> "x", author |-> "al"],
          [title |-> "a", content |-> Blank, author |-> "al"],
          [title |-> "a", content |-> "x", author |-> Blank]}
UpdatePosts ==
    {[title |-> None, content |-> None], [title |-> Some("b"), content |-> None]}
    \cup {[title |-> Some(Blank), content |-> None],
          [title |-> Some(LongTitle), content |-> None],
          [title |-> None, content |-> Some(Blank)]}
FormPosts ==
    CreatePosts
    \cup {[title |-> FullTitle, content |-> "x", author |-> "al"],
          [title |-> WideTitle, content |-> "x", author |-> "al"]}
EditUpdates == [title : {None, Some("b")}, content : {None, Some("y")}]
CreateComments ==
    OneComment
    \cup {[content |-> Blank, author |-> "al"], [content |-> "x", author |-> Blank]}

\* the creating requests a run still gets when it is to hand out no id beyond cap
UpTo(next, cap, bodies) == IF next <= cap THEN bodies ELSE {}

\* the outcomes of the file operations of save: they succeed, or they may fail
Sound == {TRUE}
Faulty == BOOLEAN

\* one worker thread serves requests one after the other, with every kind of
\* request body, in one process whose saves succeed; the wall clock stands
\* still during the run (every Utc::now() reads the same instant)
NextSeq ==
    \/ StorageNew
    \/ get_all_posts(1)
    \/ get_post(1)
    \/ get_post_comments_check(1)
    \/ get_post_comments(1)
    \/ create_post(1, CreatePosts, {clock})
    \/ update_post(1, OneUpdate)
    \/ delete_post(1)
    \/ create_comment(1, CreateComments, {clock})
    \/ delete_comment(1)
    \/ save_create(1, Sound)
    \/ save_write(1, Sound)
    \/ Noted

SpecSeq == Init /\ [][NextSeq]_vars

\* one worker thread serves mutating requests one after the other, with failing
\* saves; the process is stopped at any point and started again on the same file
NextBoot ==
    \/ StorageNew
    \/ Stop
    \/ create_post(1, UpTo(nextPost, BootPosts, OnePost), {clock})
    \/ update_post(1, OneUpdate)
    \/ delete_post(1)
    \/ create_comment(1, UpTo(nextComment, BootComments, OneComment), {clock})
    \/ delete_comment(1)
    \/ save_create(1, Faulty)
    \/ save_write(1, Faulty)
    \/ Noted

SpecBoot == Init /\ [][NextBoot]_vars

\* one worker thread serves creating and updating requests one after the other
\* while the wall clock runs (and is set back): the runs that tell timestamps apart
NextClock ==
    \/ StorageNew
    \/ ClockStep
    \/ create_post(1, UpTo(nextPost, ClockPosts, OnePost), Time)
    \/ update_post(1, UpdatePosts)
    \/ save_create(1, Sound)
    \/ save_write(1, Sound)
    \/ Noted

SpecClock == Init /\ [][NextClock]_vars

\* one worker thread serves creating requests one after the other while the
\* wall clock runs: the runs that tell the two Utc::now() of a constructor apart
NextStamp ==
    \/ StorageNew
    \/ ClockStep
    \/ create_post(1, UpTo(nextPost, ClockPosts, OnePost), Time)
    \/ create_comment(1, UpTo(nextComment, ClockComments, OneComment), Time)
    \/ save_create(1, Sound)
    \/ save_write(1, Sound)
    \/ Noted

SpecStamp == Init /\ [][NextStamp]_vars

\* one worker thread serves POST /posts requests one after the other, with
\* titles of every length
NextForm ==
    \/ StorageNew
    \/ create_post(1, FormPosts, {clock})
    \/ save_create(1, Faulty)
    \/ save_write(1, Faulty)
    \/ Noted

SpecForm == Init /\ [][NextForm]_vars

\* one worker thread creates posts and comments and updates posts, with every
\* combination of present and absent fields, while the wall clock runs
NextEdit ==
    \/ StorageNew
    \/ ClockStep
    \/ create_post(1, UpTo(nextPost, EditPosts, OnePost), {clock})
    \/ create_comment(1, UpTo(nextComment, EditComments, OneComment), {clock})
    \/ update_post(1, EditUpdates)
    \/ save_create(1, Sound)
    \/ save_write(1, Sound)
    \/ Noted

SpecEdit == Init /\ [][NextEdit]_vars

\* one worker thread lists the comments of posts again and again, between
\* requests that create and delete posts and comments
NextList ==
    \/ StorageNew
    \/ get_comments(1)
    \/ get_post_comments(1)
    \/ create_post(1, UpTo(nextPost, ListPosts, OnePost), {clock})
    \/ delete_post(1)
    \/ create_comment(1, UpTo(nextComment, ListComments, OneComment), {clock})
    \/ delete_comment(1)
    \/ save_create(1, Sound)
    \/ save_write(1, Sound)
    \/ Noted

SpecList == Init /\ [][NextList]_vars

\* all worker threads serve requests concurrently, with failing saves and
\* restarts; the wall clock stands still
Next ==
    \/ StorageNew
    \/ Stop
    \/ \E t \in Threads : get_all_posts(t)
    \/ \E t \in Threads : get_post(t)
    \/ \E t \in Threads : get_comments(t)
    \/ \E t \in Threads : get_post_comments_check(t)
    \/ \E t \in Threads : get_post_comments(t)
    \/ \E t \in Threads : create_post(t, UpTo(nextPost, ConcPosts, OnePost), {clock})
    \/ \E t \in Threads : update_post(t, OneUpdate)
    \/ \E t \in Threads : delete_post(t)
    \/ \E t \in Threads : create_comment(t, UpTo(nextComment, ConcComments, OneComment), {clock})
    \/ \E t \in Threads : delete_comment(t)
    \/ \E t \in Threads : save_create(t, Faulty)
    \/ \E t \in Threads : save_write(t, Faulty)
    \/ Noted

Spec == Init /\ [][Next]_vars

\* the steps that carry on a request of thread t that has started
Continue(t) ==
    \/ get_post_comments_check(t)
    \/ get_post_comments(t)
    \/ save_create(t, Faulty)
    \/ save_write(t, Faulty)

\* the concurrent runs of one process under fair scheduling: a thread that is again and again
\* able to take its next step (the mutex is free again and again) takes it, and
\* file operations return
NextFair ==
    \/ StorageNew
    \/ \E t \in Threads : get_all_posts(t)
    \/ \E t \in Threads : get_post(t)
    \/ \E t \in Threads : get_comments(t)
    \/ \E t \in Threads : create_post(t, UpTo(nextPost, FairPosts, OnePost), {clock})
    \/ \E t \in Threads : update_post(t, OneUpdate)
    \/ \E t \in Threads : delete_post(t)
    \/ \E t \in Threads : create_comment(t, UpTo(nextComment, FairComments, OneComment), {clock})
    \/ \E t \in Threads : delete_comment(t)
    \/ \E t \in Threads : Continue(t)
    \/ Noted

SpecFair ==
    /\ Init /\ [][NextFair]_vars
    /\ SF_vars(Noted)
    /\ \A t \in Threads : SF_vars(Continue(t))

\* ------------------------------------------------------------------ claims
\* the step recorded in `last` is the body of the mutating request op: it
\* passed the handler's validation and the method's checks and changed BlogData
Did(op) == last.op = op /\ last.at = "idle" /\ last.kind = "none"

\* C1: createComment with a post_id that is no key of the Posts mapping always
\* fails with PostNotFound and leaves the Comment collection unchanged (the
\* request body being valid).
C1_ExistenceGuard ==
    (last.op = "create_comment" /\ last.at = "idle" /\ last.kind # "ValidationError"
        /\ ~HasPost(last.pre, last.id))
    => (last.kind = "PostNotFound" /\ data.comments = last.pre.comments)

\* C2: no orphan comments: in every state of the running store every Comment
\* has a post_id that is a key of the Posts mapping.
C2_NoOrphans ==
    phase = "up" => \A i \in 1..Len(data.comments) : HasPost(data, data.comments[i].post_id)

\* C3: no two Store operations interleave: while a thread is between its
\* in-memory change and the snapshot write of its own save (it has not yet
\* locked again for it), no other Store operation enters a critical section;
\* the only critical section entered is that thread's own save.
C3_NoInterleaving ==
    [][(last' # NoEvent) => \A t \in Threads : pc[t] = "save" => pc'[t] # "save"]_vars

\* C4: snapshot consistency: whenever the store runs, no thread holds the lock
\* and no save has failed, the snapshot file holds the in-memory state.
C4_SnapshotConsistent ==
    (phase = "up" /\ lock = Free /\ saveFailures = 0)
    => (disk.exists /\ Parses(disk.content) /\ FromJson(disk.content) = data)

\* the comments of cs whose post_id is not id, in the order of cs
RECURSIVE OthersOf(_, _)
OthersOf(cs, id) ==
    IF cs = <<>> THEN <<>>
    ELSE IF Head(cs).post_id = id THEN OthersOf(Tail(cs), id)
    ELSE <<Head(cs)>> \o OthersOf(Tail(cs), id)

\* C5: cascade delete: deletePost(P.id) of a present Post P removes P and
\* exactly the Comments whose post_id is P.id; all other Posts and the Comments
\* of other posts remain, unchanged and in the same relative order.
C5_CascadeDelete ==
    Did("delete_post")
    => /\ HasPost(last.pre, last.id)
       /\ DOMAIN data.posts = DOMAIN last.pre.posts \ {last.id}
       /\ \A k \in DOMAIN data.posts : data.posts[k] = last.pre.posts[k]
       /\ data.comments = OthersOf(last.pre.comments, last.id)

\* C5 witness: a delete has removed a post with a comment of its own while
\* another post and two comments of other posts stayed
C5_Witness ==
    /\ Did("delete_post")
    /\ Len(data.comments) < Len(last.pre.comments)
    /\ Len(data.comments) > 1
    /\ DOMAIN data.posts # {}

\* the change that the body of request op with path id `id` made is in d
Kept(op, id, d) ==
    CASE op = "create_post" -> HasPost(d, id)
      [] op = "update_post" -> HasPost(d, id)
      [] op = "delete_post" -> ~HasPost(d, id)
      [] op = "create_comment" -> \E i \in 1..Len(d.comments) : d.comments[i].post_id = id
      [] op = "delete_comment" -> \A i \in 1..Len(d.comments) : d.comments[i].id # id
      [] OTHER -> FALSE

\* C6: when the snapshot write of a mutating operation fails, the operation
\* returns StorageError at once (no retry: the worker is idle again) and the
\* in-memory state is not rolled back: it is what it was before the failed
\* save, and still holds the operation's change.
C6_SaveFailureKeepsMutation ==
    last.kind = "StorageError"
    => /\ last.at \in {"save", "save_write"}
       /\ pc[1] = "idle"
       /\ data = last.pre
       /\ Kept(last.op, last.id, data)

\* C6 witness: a createPost whose save failed, with the post in memory and not
\* in the file
C6_Witness ==
    /\ last.kind = "StorageError" /\ last.op = "create_post"
    /\ HasPost(data, last.id)
    /\ Parses(disk.content) /\ ~HasPost(FromJson(disk.content), last.id)

\* C7: listPostComments is atomic: it fails with PostNotFound only if the post
\* was absent, and every successful result is the list of the post's comments in
\* one single state, during the call, in which the post existed.
C7_ListAtomic ==
    last.op = "get_comments"
    => /\ last.kind = "PostNotFound" => ~HasPost(last.pre, last.id)
       /\ last.kind = "Ok" => last.val \in last.seen

C9_Initialize ==
    [][(phase # "up" /\ (phase' # phase \/ disk' # disk \/ data' # data))
        => \/ /\ phase' = "up"
              /\ disk.exists
              /\ Parses(disk.content)
              /\ ToJson(data') = disk.content
              /\ disk' = disk
           \/ /\ phase' = "up"
              /\ ~disk.exists
              /\ data' = BlogDataNew
              /\ disk' = FileWith(ToJson(BlogDataNew))
           \/ /\ phase' = "failed"
              /\ boot' = "none"]_vars

\* C9 witness: a store built with no file present, its initial snapshot written
C9_Witness ==
    /\ phase = "up" /\ boot = "created"
    /\ data = BlogDataNew
    /\ disk = FileWith(ToJson(BlogDataNew))

\* the step recorded in `last` is the body of updatePost(id, None, None)
DidTouch == Did("update_post") /\ last.args = [title |-> None, content |-> None]

\* C10 as stated: updatePost(id, None, None) on an existing Post leaves title
\* and content unchanged and sets updated_at strictly later than it was.
C10_StrictlyLater ==
    DidTouch
    => /\ data.posts[last.id].title = last.pre.posts[last.id].title
       /\ data.posts[last.id].content = last.pre.posts[last.id].content
       /\ data.posts[last.id].updated_at > last.pre.posts[last.id].updated_at

\* C10 amended: updatePost(id, None, None) on an existing Post leaves title and
\* content unchanged and sets updated_at to the wall-clock reading it takes.
C10_RefreshedToNow ==
    DidTouch
    => /\ HasPost(last.pre, last.id)
       /\ data.posts[last.id].title = last.pre.posts[last.id].title
       /\ data.posts[last.id].content = last.pre.posts[last.id].content
       /\ data.posts[last.id].updated_at = clock

\* C10 witness: an update with no field present that moved updated_at
C10_Witness ==
    /\ DidTouch
    /\ data.posts[last.id].updated_at # last.pre.posts[last.id].updated_at

\* C11: every Post built by Post::new and every Comment built by Comment::new
\* has created_at equal to updated_at at the moment of creation.
C11_StampsEqual ==
    /\ Did("create_post")
        => data.posts[last.id].created_at = data.posts[last.id].updated_at
    /\ Did("create_comment")
        => LET c == data.comments[Len(data.comments)]
           IN  c.created_at = c.updated_at

\* the number of characters (Unicode scalar values) of a text
Chars(s) ==
    CASE s = LongTitle -> 201
      [] s = FullTitle -> 200
      [] s = WideTitle -> 200
      [] s = "" -> 0
      [] s = "al" -> 2
      [] OTHER -> 1

\* C12: POST /posts is rejected with ValidationError, with no Store call and no
\* state change, exactly when title, content or author is empty after trimming
\* or the title has more than 200 characters; every other request is accepted
\* and stored (a title of 200 characters is accepted whatever its characters).
C12_Validation ==
    (last.op = "create_post" /\ last.at = "idle")
    => IF \/ TrimIsEmpty(last.args.title) \/ TrimIsEmpty(last.args.content)
          \/ TrimIsEmpty(last.args.author)
          \/ Chars(last.args.title) > MaxTitleLen
       THEN /\ last.kind = "ValidationError"
            /\ data = last.pre
            /\ pc[1] = "idle"
       ELSE /\ last.kind = "none"
            /\ HasPost(data, last.id)
            /\ data.posts[last.id].title = last.args.title
            /\ data.posts[last.id].content = last.args.content
            /\ data.posts[last.id].author = last.args.author

\* the entity that request op names by id is absent from d
Missing(op, id, d) ==
    CASE op \in {"get_post", "update_post", "delete_post"} -> ~HasPost(d, id)
      [] op = "delete_comment" -> \A i \in 1..Len(d.comments) : d.comments[i].id # id
      [] OTHER -> FALSE

\* C13: not-found failures change nothing: getPost, updatePost and deletePost
\* with an id absent from Posts fail with PostNotFound, deleteComment with an id
\* matching no Comment fails with CommentNotFound; Posts and Comments in memory
\* and the snapshot file are unchanged and no save is started.
C13_NotFoundChangesNothing ==
    [][(last' # NoEvent /\ last'.at = "idle" /\ last'.kind # "ValidationError"
            /\ Missing(last'.op, last'.id, data))
        => /\ last'.kind = IF last'.op = "delete_comment"
                           THEN "CommentNotFound" ELSE "PostNotFound"
           /\ data' = data
           /\ disk' = disk
           /\ pc'[1] = "idle"]_vars

\* C13 witness: a deleteComment with an unknown id has failed on a store that
\* holds a post and a comment
C13_Witness ==
    /\ last.op = "delete_comment" /\ last.kind = "CommentNotFound"
    /\ DOMAIN data.posts # {}
    /\ Len(data.comments) > 0

\* C14: updatePost(id, optionalTitle, optionalContent) that passes its checks
\* overwrites title only if optionalTitle is present and content only if
\* optionalContent is present, refreshes updated_at to the clock reading, and
\* leaves the Post's id, author and created_at, every other Post and the whole
\* Comment collection unchanged.
C14_UpdateFrame ==
    Did("update_post")
    => /\ HasPost(last.pre, last.id)
       /\ DOMAIN data.posts = DOMAIN last.pre.posts
       /\ LET old == last.pre.posts[last.id]
              new == data.posts[last.id]
          IN  /\ new.title = IF IsSome(last.args.title) THEN last.args.title[1] ELSE old.title
              /\ new.content = IF IsSome(last.args.content) THEN last.args.content[1] ELSE old.content
              /\ new.updated_at = clock
              /\ new.id = old.id
              /\ new.author = old.author
              /\ new.created_at = old.created_at
       /\ \A k \in DOMAIN data.posts \ {last.id} : data.posts[k] = last.pre.posts[k]
       /\ data.comments = last.pre.comments

\* C14 witness: an update with only the title present has changed the title and
\* updated_at of one post, in a store with another post and a comment
C14_Witness ==
    /\ Did("update_post")
    /\ last.args = [title |-> Some("b"), content |-> None]
    /\ data.posts[last.id].title # last.pre.posts[last.id].title
    /\ data.posts[last.id].updated_at # last.pre.posts[last.id].updated_at
    /\ data.posts[last.id].updated_at # data.posts[last.id].created_at
    /\ DOMAIN data.posts # {last.id}
    /\ Len(data.comments) > 0

\* the comments of cs whose id is not id, in the order of cs
RECURSIVE AllBut(_, _)
AllBut(cs, id) ==
    IF cs = <<>> THEN <<>>
    ELSE IF Head(cs).id = id THEN AllBut(Tail(cs), id)
    ELSE <<Head(cs)>> \o AllBut(Tail(cs), id)

\* C15: deleteComment(id) that finds its Comment removes exactly the Comment
\* whose id matches; the Posts mapping is unchanged and all other Comments
\* remain with unchanged fields and in the same relative order.
C15_DeleteCommentFrame ==
    Did("delete_comment")
    => /\ data.posts = last.pre.posts
       /\ Len(data.comments) = Len(last.pre.comments) - 1
       /\ data.comments = AllBut(last.pre.comments, last.id)

\* C15 witness: the first of three comments has been deleted, two stay
C15_Witness ==
    /\ Did("delete_comment")
    /\ Len(data.comments) = 2
    /\ last.pre.comments[1].id = last.id
    /\ DOMAIN data.posts # {}

\* C16: idempotent listing: a listPostComments(postId) that follows another one
\* with no change of BlogData taking effect between or during them returns the
\* same sequence, and no call changes the in-memory state or the snapshot file.
C16_IdempotentListing ==
    [][(last' # NoEvent /\ last'.op = "get_comments")
        => /\ data' = data
           /\ disk' = disk
           /\ (last'.kind = "Ok" /\ listed # NoList /\ listed.id = last'.id)
               => last'.val = listed.val]_vars

\* C16 witness: a second listing of the same post has returned, after a first
\* one that returned the post's one comment (another post has a comment too)
\* and with no change of BlogData since
C16_Witness ==
    /\ last.op = "get_comments" /\ last.kind = "Ok"
    /\ last.was # NoList
    /\ last.was.id = last.id
    /\ Len(last.was.val) = 1
    /\ Len(data.comments) = 2

\* C17: deadlock freedom: a thread holds the mutex only inside save, where it
\* locks nothing (it never waits for the mutex it holds), and under fair
\* scheduling every started Store operation eventually returns, on success and
\* on every error path, with the mutex not held by its thread.
C17_DeadlockFree ==
    /\ [](\A t \in Threads : lock = t => pc[t] = "save_write")
    /\ \A t \in Threads : (pc[t] # "idle") ~> (pc[t] = "idle" /\ lock # t)

\* C17 witness: a thread is inside save with the mutex held while another
\* thread waits to lock it for its own save
C17_Witness ==
    /\ lock = 1 /\ pc[1] = "save_write"
    /\ pc[2] = "save"

\* the mutating operations of Storage
Mutating == {"create_post", "update_post", "delete_post", "create_comment", "delete_comment"}

\* no operation is running and every snapshot write of this run succeeded
Quiescent == phase = "up" /\ (\A t \in Threads : pc[t] = "idle") /\ saveFailures = 0

\* C18: quiescent consistency: once all concurrently running operations have
\* returned and every snapshot write succeeded, the snapshot file holds the
\* in-memory state; and no mutation is lost: the running store's memory changes
\* only by the body of a mutating operation, which applies that operation's
\* effect, and an operation returns success only from a completed save of a
\* state reached after its body.
C18_QuiescentConsistency ==
    /\ [](Quiescent => (disk.exists /\ Parses(disk.content) /\ FromJson(disk.content) = data))
    /\ [][(phase = "up" /\ phase' = "up" /\ data' # data)
            => /\ last'.op \in Mutating /\ last'.at = "idle" /\ last'.kind = "none"
               /\ Kept(last'.op, last'.id, data')]_vars
    /\ [][(last' # NoEvent /\ last'.op \in Mutating /\ last'.kind = "Ok")
            => (last'.at = "save_write" /\ data' = data)]_vars

\* C18 witness: the last of several mutating operations has returned Ok, no
\* operation is running, and file and memory hold a post and two comments
C18_Witness ==
    /\ Quiescent
    /\ last.kind = "Ok" /\ last.op = "create_comment" /\ last.at = "save_write"
    /\ DOMAIN data.posts # {} /\ Len(data.comments) = 2
    /\ disk = FileWith(ToJson(data))

\* C19: snapshot writes are never stale: save serializes and writes while its
\* thread holds the lock, under which memory does not change, so every
\* completed successful write leaves in the file exactly the in-memory state of
\* that moment: the newest state, never one older than an earlier save wrote.
C19_NeverStale ==
    /\ [](\A t \in Threads : pc[t] = "save_write" => lock = t)
    /\ [][lock # Free => data' = data]_vars
    /\ [][(last' # NoEvent /\ last'.at = "save_write" /\ last'.kind = "Ok")
            => (disk' = FileWith(ToJson(data)) /\ data' = data)]_vars

\* C19 witness: a save has just completed while another thread, whose change
\* is already in memory and so in the file, still waits for its own save
C19_Witness ==
    /\ last.at = "save_write" /\ last.kind = "Ok"
    /\ \E u \in Threads : pc[u] = "save" /\ req[u].op = "create_comment"
    /\ Len(data.comments) = 2
    /\ disk = FileWith(ToJson(data))

\* C20: GET /posts/{id} returns a consistent view: the {post, comments} pair
\* of a 200 response is the Post and its Comments as they were together in one
\* single state of the store during the request.
C20_ConsistentView ==
    (last.op = "get_post" /\ last.kind = "Ok") => last.val \in last.seen

====
